---- MODULE Spec2Model ----
(***************************************************************************)
(* Client-side job orchestration of frontend/app/page.tsx (component Home) *)
(* as a state machine: the React state a generation job is observed        *)
(* through (jobId, jobStatus, loading, error), the launch handlers, the    *)
(* effect-based status poller and the three handler-local polling loops,   *)
(* the remote job service behind GET status/{job_id}, and the two reset    *)
(* buttons.  Timers (setInterval / setTimeout) and HTTP round trips are    *)
(* asynchronous: a tick, a timeout and the arrival of a response are       *)
(* separate steps that interleave freely.                                  *)
(***************************************************************************)
EXTENDS Integers, FiniteSets, Sequences, TLC

\* ------------------------------------------------------------------ bounds
MaxJobs == 2
MaxQueries == 2

JobIds == 1..MaxJobs

\* ------------------------------------------------------------- vocabulary
NullStr == "<null>"

Paths == {"image", "text", "ad", "adv", "genAd", "genAdv"}

Terminal(s) == s = "completed" \/ s = "failed"

\* jobStatus === null.  The field job is bookkeeping: the job a status
\* object describes (0 for none); the code's JobStatus carries no id.
NoStatus ==
  [job |-> 0, status |-> "undefined", progress |-> 0, result |-> FALSE, error |-> FALSE]

\* { status: 'initializing', progress: 0 } as the launch handlers build it
InitialStatus(j) ==
  [job |-> j, status |-> "initializing", progress |-> 0, result |-> FALSE, error |-> FALSE]

NoLaunch == [path |-> "none", stage |-> "none"]

VARIABLES
  jobId,        \* useState jobId: 0 is null
  jobStatus,    \* useState jobStatus: NoStatus is null
  loading,      \* useState loading
  error,        \* useState error: NullStr is null
  pending,      \* the launch handler suspended at an await, or NoLaunch
  nextJob,      \* next job id the remote service hands out
  remote,       \* remote service: job id -> its current status object
  effInterval,  \* job id polled by the live interval of the poller effect, 0 if none
  effTimers,    \* the live setInterval timers the poller effect created: id and job polled
  effCur,       \* `interval` of the latest run of the poller effect: a timer id, 0 if undefined
  chainTimer,   \* job ids with a pending setTimeout(checkStatus, 2000)
  adInterval,   \* job ids with a live setInterval(checkStatus, 2000) of handleAdGeneration
  adCeiling,    \* pending 5-minute timeouts of handleAdGeneration, with the captured loading
  requests,     \* status queries in flight
  queries,      \* history: number of status queries issued per job
  failSeen,     \* history: a status query of the job failed at transport level
  termHandled,  \* history: executions of the terminal branch per job
  discarded,    \* history: the job was the active one when the view was reset
  uploadedVoices,        \* useState uploadedVoices: the voices it lists
  selectedVoice,         \* useState selectedVoice: NoVoice is null
  availableVoices,       \* useState availableVoices: the voices it lists
  advancedVideoVoiceId,  \* useState advancedVideoVoiceId
  registry,     \* remote service: the voices GET voices/available lists
  vpc,          \* where uploadVoiceRecording / cloneVoice / handleVoiceUpload is
                \* suspended: idle, upload, clone, file
  curVoice,     \* number of the recording uploadVoiceRecording is handling
  nextVoice,    \* number of the next recording
  fetches,      \* GET voices/available requests in flight, with their answers
  nextFetch,    \* number of the next GET voices/available
  notified,     \* history: the latest alert shown
  vDecision,    \* history: what the user answered after the latest voice upload
  cloneRequests,  \* history: recordings for which a clone-voice request was sent
  panel,          \* the status object the progress panel renders: its status and
                  \* estimated_time_remaining
  timeText,       \* what formatTime returned for it, or Unrendered
  remainingText,  \* the "Estimated time remaining" text rendered for it, or Unrendered
  description,    \* the status description rendered for it, or Unrendered
  isRecording,       \* useState isRecording
  recordingTime,     \* useState recordingTime (saturates at MaxRecordingTime)
  timerRef,          \* timerRef.current: a timer id, 0 is null
  recTimers,         \* the live setInterval timers startRecording created
  mediaRecorderRef,  \* mediaRecorderRef.current: number of the call that set it, 0 is null
  acquiring,         \* calls of startRecording suspended at getUserMedia
  nextStart,         \* number of the next call of startRecording
  form,         \* which fields of the forms are filled in (edited under SpecLaunchGuard)
  noFace,       \* history: the latest photo upload was answered face_detected false
  errorJob,     \* history: job whose polling callback set the current error, 0 if none
  trainingImages,      \* useState trainingImages: number of training assets held
  trainingInProgress,  \* useState trainingInProgress
  trainingProgress,    \* useState trainingProgress
  modelId,             \* useState modelId: 0 is null
  tpc,          \* where startTraining is suspended: idle, upload, start, sleep, status
  tModel,       \* startTraining's local const modelId (0 before the upload answered)
  attempts,     \* startTraining's local attempts
  uncounted,    \* history: status queries of the run answered without attempts++ (saturating)
  tSent,        \* history: kinds of request the run has issued
  tAcks,        \* history: kinds of request of the run the service answered with success true
  tSeen,        \* history: kind of the answer to the run's latest status query
  tPhase,       \* history: latest known phase label the run observed
  tOutcome,     \* history: how the latest call of startTraining went, "running" until it ends
  lastCompleted \* history: model id of the run that observed "completed", 0 if none

vars == <<jobId, jobStatus, loading, error, pending, nextJob, remote, effInterval,
          chainTimer, adInterval, adCeiling, requests, queries, failSeen,
          termHandled, discarded, form, noFace, errorJob, effTimers, effCur,
          isRecording, recordingTime, timerRef, recTimers, mediaRecorderRef, acquiring,
          nextStart,
          uploadedVoices, selectedVoice, availableVoices, advancedVideoVoiceId, registry, vpc,
          curVoice, nextVoice, fetches, nextFetch, notified, vDecision, cloneRequests,
          panel, timeText, remainingText, description,
          trainingImages, trainingInProgress, trainingProgress, modelId, tpc, tModel,
          attempts, uncounted, tSent, tAcks, tSeen, tPhase, tOutcome,
          lastCompleted>>

\* the recorder
recVars == <<isRecording, recordingTime, timerRef, recTimers, mediaRecorderRef, acquiring,
             nextStart>>

\* the progress panel
renderVars == <<panel, timeText, remainingText, description>>

\* the state of the voice flow
voiceVars == <<uploadedVoices, selectedVoice, availableVoices, advancedVideoVoiceId, registry,
               vpc, curVoice, nextVoice, fetches, nextFetch, notified, vDecision,
               cloneRequests>>

\* the state of the training flow
trainVars == <<trainingImages, trainingInProgress, trainingProgress, modelId, tpc, tModel,
               attempts, uncounted, tSent, tAcks, tSeen, tPhase, tOutcome,
               lastCompleted>>

loopVars == <<chainTimer, adInterval, adCeiling>>

\* the timers of the poller effect
timerVars == <<effTimers, effCur>>
histVars == <<queries, failSeen, termHandled, discarded>>

\* ---------------------------------------------------------- remote service
\* Status objects GET status/{job_id} can answer with.  result is present
\* only on completed; error may or may not accompany failed.
RemoteStart == InitialStatus(0)

RemoteNext(s) ==
  IF Terminal(s.status) THEN {}
  ELSE {[s EXCEPT !.status = "failed", !.error = e] : e \in BOOLEAN}
       \cup (IF s.status = "initializing"
             THEN {[s EXCEPT !.status = "generating_video", !.progress = 40]}
             ELSE {[s EXCEPT !.status = "completed", !.progress = 100, !.result = TRUE]})

\* The job's processing advances out-of-band.
RemoteAdvance(j) ==
  /\ j < nextJob
  /\ \E s \in RemoteNext(remote[j]) : remote' = [remote EXCEPT ![j] = s]
  /\ UNCHANGED <<jobId, jobStatus, loading, error, errorJob, pending, nextJob, effInterval, timerVars,
                 requests, loopVars, histVars>>
  /\ UNCHANGED <<trainVars, noFace, form, voiceVars, renderVars, recVars>>

\* What one status query resolves to: the status object the service holds
\* when it is asked, or a transport failure.
Responses(j) ==
  { [ok |-> TRUE, data |-> [remote[j] EXCEPT !.job = j]],
    [ok |-> FALSE, data |-> NoStatus] }

\* ------------------------------------------------------- the poller effect
\* useEffect(..., [jobId, jobStatus?.status]): the condition under which the
\* effect body creates its interval.
PollGuard(id, st) == id # 0 /\ st.status # "completed" /\ st.status # "failed"

DepsChanged(newId, newStatus) ==
  newId # jobId \/ newStatus.status # jobStatus.status

Stale(r) == IF r.loop = "effect" THEN [r EXCEPT !.live = FALSE] ELSE r

\* Commit of a render that sets jobId and jobStatus.  When a dependency of
\* the poller effect changed, its cleanup clears the previous interval and
\* the body runs again; otherwise the interval is what the callback left
\* (ivl).  Requests issued by a cleared interval keep running; their
\* closure's `interval` no longer names a live timer.
CleanupMutant(tms, cur) == tms

\* the effect's cleanup: if (interval) clearInterval(interval)
Cleanup(tms, cur) == {t \in tms : t.id # cur}

\* clearInterval(interval) in the interval's callback
ClearInterval(tms, id) == {t \in tms : t.id # id}

\* The id setInterval returns: one that names no timer yet.  Ids are opaque,
\* so the least id that no live timer, no closure of a callback in flight
\* and not the latest run's `interval` holds stands for it.
TimerIds == 1..(MaxQueries + MaxJobs + 2)

NextTimer ==
  LET used == {t.id : t \in effTimers} \cup {r.timer : r \in requests} \cup {effCur}
  IN CHOOSE i \in TimerIds : i \notin used /\ \A k \in TimerIds : k < i => k \in used

\* tms is the set of timers the callback left.
EffectRun(newId, newStatus, ivl, reqs, tms) ==
  /\ jobId' = newId
  /\ jobStatus' = newStatus
  /\ effInterval' = IF DepsChanged(newId, newStatus)
                    THEN (IF PollGuard(newId, newStatus) THEN newId ELSE 0)
                    ELSE ivl
  /\ requests' = IF DepsChanged(newId, newStatus) THEN {Stale(r) : r \in reqs} ELSE reqs
  /\ effTimers' = IF DepsChanged(newId, newStatus)
                  THEN Cleanup(tms, effCur)
                       \cup (IF PollGuard(newId, newStatus)
                             THEN {[id |-> NextTimer, job |-> newId]} ELSE {})
                  ELSE tms
  /\ effCur' = IF DepsChanged(newId, newStatus)
               THEN (IF PollGuard(newId, newStatus) THEN NextTimer ELSE 0)
               ELSE effCur

Commit(newId, newStatus, ivl, reqs) == EffectRun(newId, newStatus, ivl, reqs, effTimers)

RECURSIVE SumUpTo(_, _)
SumUpTo(f, n) == IF n = 0 THEN 0 ELSE f[n] + SumUpTo(f, n - 1)

TotalQueries == SumUpTo(queries, MaxJobs)

Budget == TotalQueries < MaxQueries

NewRequest(j, lp, resp) ==
  [job |-> j, loop |-> lp, n |-> TotalQueries + 1, live |-> (lp = "effect"), resp |-> resp,
   timer |-> 0]

Issue(j) == queries' = [queries EXCEPT ![j] = @ + 1]

\* One tick of the effect's setInterval: the async callback starts a query
\* and suspends; nothing waits for the previous callback to finish.
EffectTick ==
  /\ Budget
  /\ \E t \in effTimers :
       /\ \E resp \in Responses(t.job) :
            requests' = requests \cup
              {[NewRequest(t.job, "effect", resp) EXCEPT !.timer = t.id,
                                                         !.live = (t.id = effCur)]}
       /\ Issue(t.job)
  /\ UNCHANGED <<jobId, jobStatus, loading, error, errorJob, pending, nextJob, remote, effInterval, timerVars,
                 loopVars, failSeen, termHandled, discarded>>
  /\ UNCHANGED <<trainVars, noFace, form, voiceVars, renderVars, recVars>>


\* The branch every polling callback takes on "completed" / "failed".
SeeTerminal(j, d) ==
  /\ termHandled' = [termHandled EXCEPT ![j] = IF Terminal(d.status) THEN @ + 1 ELSE @]
  /\ UNCHANGED <<failSeen, queries, discarded>>

SeeFailure(j) ==
  /\ failSeen' = [failSeen EXCEPT ![j] = TRUE]
  /\ UNCHANGED <<termHandled, queries, discarded>>

RemoteMessage == "error reported by the remote job"

\* The async callback of the effect's interval resumes after its await.
\* clearInterval(interval) clears the interval of the callback's own effect
\* run, which is the live one only if the effect has not re-run since.
EffectResponse(r) ==
  /\ r \in requests /\ r.loop = "effect"
  /\ LET rest == requests \ {r}
         cleared == IF r.live THEN 0 ELSE effInterval
         left == ClearInterval(effTimers, r.timer)
         d == r.resp.data
     IN IF r.resp.ok
        THEN /\ EffectRun(jobId, d, IF Terminal(d.status) THEN cleared ELSE effInterval, rest,
                          IF Terminal(d.status) THEN left ELSE effTimers)
             /\ loading' = IF Terminal(d.status) THEN FALSE ELSE loading
             /\ error' = IF d.status = "failed"
                         THEN (IF d.error THEN RemoteMessage ELSE "Video generation failed")
                         ELSE error
             /\ errorJob' = IF d.status = "failed" THEN r.job ELSE errorJob
             /\ SeeTerminal(r.job, d)
        ELSE /\ EffectRun(jobId, jobStatus, cleared, rest, left)
             /\ loading' = FALSE
             /\ error' = "Failed to check video generation status"
             /\ errorJob' = r.job
             /\ SeeFailure(r.job)
  /\ UNCHANGED <<pending, nextJob, remote, loopVars>>
  /\ UNCHANGED <<trainVars, noFace, form, voiceVars, renderVars, recVars>>

\* --------------------------------------------- startCheckingStatus (text)
\* checkStatus of startCheckingStatus resumes after its await.
TextResponse(r) ==
  /\ r \in requests /\ r.loop = "text"
  /\ LET rest == requests \ {r}
         d == r.resp.data
     IN IF r.resp.ok
        THEN /\ Commit(jobId, d, effInterval, rest)
             /\ loading' = IF Terminal(d.status) THEN FALSE ELSE loading
             /\ chainTimer' = IF Terminal(d.status) THEN chainTimer
                              ELSE chainTimer \cup {[job |-> r.job, loop |-> "text"]}
             /\ SeeTerminal(r.job, d)
        ELSE /\ Commit(jobId, jobStatus, effInterval, rest)
             /\ loading' = FALSE
             /\ UNCHANGED chainTimer
             /\ SeeFailure(r.job)
  /\ UNCHANGED <<error, errorJob, pending, nextJob, remote, adInterval, adCeiling>>
  /\ UNCHANGED <<trainVars, noFace, form, voiceVars, renderVars, recVars>>

\* ------------------------------- handleAdvancedVideoGeneration checkStatus
AdvResponse(r) ==
  /\ r \in requests /\ r.loop = "adv"
  /\ LET rest == requests \ {r}
         d == r.resp.data
     IN IF r.resp.ok
        THEN /\ Commit(jobId, d, effInterval, rest)
             /\ loading' = IF Terminal(d.status) THEN FALSE ELSE loading
             /\ error' = IF d.status = "failed"
                         THEN (IF d.error THEN RemoteMessage ELSE "Failed to generate video")
                         ELSE error
             /\ errorJob' = IF d.status = "failed" THEN r.job ELSE errorJob
             /\ chainTimer' = IF Terminal(d.status) THEN chainTimer
                              ELSE chainTimer \cup {[job |-> r.job, loop |-> "adv"]}
             /\ SeeTerminal(r.job, d)
        ELSE /\ Commit(jobId, jobStatus, effInterval, rest)
             /\ loading' = FALSE
             /\ error' = "Failed to check video generation status"
             /\ errorJob' = r.job
             /\ UNCHANGED chainTimer
             /\ SeeFailure(r.job)
  /\ UNCHANGED <<pending, nextJob, remote, adInterval, adCeiling>>
  /\ UNCHANGED <<trainVars, noFace, form, voiceVars, renderVars, recVars>>

\* A pending setTimeout(checkStatus, 2000) of either chain fires: checkStatus
\* starts the next query.
ChainTimeout(t) ==
  /\ t \in chainTimer
  /\ Budget
  /\ chainTimer' = chainTimer \ {t}
  /\ \E resp \in Responses(t.job) :
       requests' = requests \cup {NewRequest(t.job, t.loop, resp)}
  /\ Issue(t.job)
  /\ UNCHANGED <<jobId, jobStatus, loading, error, errorJob, pending, nextJob, remote, effInterval, timerVars,
                 adInterval, adCeiling, failSeen, termHandled, discarded>>
  /\ UNCHANGED <<trainVars, noFace, form, voiceVars, renderVars, recVars>>

\* ------------------------------------------ handleAdGeneration checkStatus
AdResponse(r) ==
  /\ r \in requests /\ r.loop = "ad"
  /\ LET rest == requests \ {r}
         d == r.resp.data
     IN IF r.resp.ok
        THEN /\ Commit(jobId, d, effInterval, rest)
             /\ loading' = IF Terminal(d.status) THEN FALSE ELSE loading
             /\ UNCHANGED <<error, errorJob>>
             /\ SeeTerminal(r.job, d)
        ELSE /\ Commit(jobId, jobStatus, effInterval, rest)
             /\ loading' = FALSE
             /\ error' = "Failed to check ad generation status"
             /\ errorJob' = r.job
             /\ SeeFailure(r.job)
  /\ UNCHANGED <<pending, nextJob, remote, loopVars>>
  /\ UNCHANGED <<trainVars, noFace, form, voiceVars, renderVars, recVars>>

\* One tick of setInterval(checkStatus, 2000) of handleAdGeneration.
AdTick(j) ==
  /\ j \in adInterval
  /\ Budget
  /\ \E resp \in Responses(j) :
       requests' = requests \cup {NewRequest(j, "ad", resp)}
  /\ Issue(j)
  /\ UNCHANGED <<jobId, jobStatus, loading, error, errorJob, pending, nextJob, remote, effInterval, timerVars,
                 loopVars, failSeen, termHandled, discarded>>
  /\ UNCHANGED <<trainVars, noFace, form, voiceVars, renderVars, recVars>>

\* The 300000 ms timeout of handleAdGeneration fires.  `loading` is the
\* value the handler's closure captured when the handler was called.
AdCeilingFire(c) ==
  /\ c \in adCeiling
  /\ adCeiling' = adCeiling \ {c}
  /\ adInterval' = adInterval \ {c.job}
  /\ loading' = IF c.loading THEN FALSE ELSE loading
  /\ error' = IF c.loading
              THEN "Ad generation is taking longer than expected. Please check back later."
              ELSE error
  /\ errorJob' = IF c.loading THEN c.job ELSE errorJob
  /\ UNCHANGED <<jobId, jobStatus, pending, nextJob, remote, effInterval, timerVars, chainTimer,
                 requests, histVars>>
  /\ UNCHANGED <<trainVars, noFace, form, voiceVars, renderVars, recVars>>


\* ------------------------------------------------------- launch handlers
\* The message each handler sets when a required field is missing.
MissingFieldMessage(path) ==
  CASE path = "image"  -> "Please upload a photo first"
    [] path = "text"   -> "Please enter a text prompt to generate a video"
    [] path = "ad"     -> "Please enter ad content"
    [] path = "adv"    -> "Please enter a description for your advanced video"
    [] path = "genAd"  -> "Please provide a brand name and ad text"
    [] path = "genAdv" -> "Please provide a video description"

\* photo, textPrompt, adText, brandName, advancedVideoPrompt: null or ''
\* (FALSE) or filled in (TRUE)
Fields == {"photo", "textPrompt", "adText", "brandName", "advancedVideoPrompt"}

\* the dropzone, an input or a textarea changes one field
EditField(f) ==
  /\ form' = [form EXCEPT ![f] = ~form[f]]
  /\ UNCHANGED <<jobId, jobStatus, loading, error, errorJob, pending, nextJob, remote,
                 effInterval, timerVars, loopVars, requests, histVars, noFace>>
  /\ UNCHANGED <<trainVars, voiceVars, renderVars, recVars>>

RequiredPresentMutant(path) ==
  CASE path = "image"  -> form["photo"]
    [] path = "text"   -> form["textPrompt"]
    [] path = "ad"     -> form["adText"]
    [] path = "adv"    -> form["advancedVideoPrompt"]
    [] path = "genAd"  -> form["adText"]
    [] path = "genAdv" -> form["advancedVideoPrompt"]

\* The test each handler opens with: if (!photo), if (!textPrompt),
\* if (!adText), if (!advancedVideoPrompt), if (!brandName || !adText),
\* if (!advancedVideoPrompt).
RequiredPresent(path) ==
  CASE path = "image"  -> form["photo"]
    [] path = "text"   -> form["textPrompt"]
    [] path = "ad"     -> form["adText"]
    [] path = "adv"    -> form["advancedVideoPrompt"]
    [] path = "genAd"  -> form["brandName"] /\ form["adText"]
    [] path = "genAdv" -> form["advancedVideoPrompt"]

\* A launch handler runs from its call to its first await.  The generate
\* buttons are disabled while loading.  handleAdGeneration also clears
\* jobStatus; its closure keeps the loading value of the calling render, and
\* handleGenerateVideo's the modelId it later sends as model_id.
LaunchStart(path, fieldsOk) ==
  /\ pending = NoLaunch
  /\ ~loading
  /\ IF ~fieldsOk
     THEN /\ error' = MissingFieldMessage(path)
          /\ errorJob' = 0
          /\ UNCHANGED <<jobId, jobStatus, loading, pending, effInterval, requests, noFace>>
          /\ UNCHANGED timerVars
     ELSE /\ loading' = TRUE
          /\ error' = NullStr
          /\ errorJob' = 0
          /\ pending' = [path |-> path,
                         stage |-> IF path = "image" THEN "upload" ELSE "launch",
                         loading |-> loading,
                         model_id |-> modelId]
          /\ noFace' = FALSE
          /\ Commit(jobId, IF path = "ad" THEN NoStatus ELSE jobStatus, effInterval, requests)
  /\ UNCHANGED <<nextJob, remote, loopVars, histVars>>
  /\ UNCHANGED <<trainVars, form, voiceVars, renderVars, recVars>>

\* handleGenerateVideo resumes after POST upload-photo.
UploadOutcomes == {"ok", "no_face", "no_filepath", "transport"}

UploadPassesMutant(outcome) == outcome \in {"ok", "no_face"}

\* neither face_detected === false nor a missing filepath (nor a throw of axios)
UploadPasses(outcome) == outcome = "ok"

UploadResponse(outcome) ==
  /\ pending # NoLaunch /\ pending.stage = "upload"
  /\ noFace' = (outcome = "no_face")
  /\ IF UploadPasses(outcome)
     THEN /\ pending' = [pending EXCEPT !.stage = "launch"]
          /\ UNCHANGED <<loading, error, errorJob>>
     ELSE /\ pending' = NoLaunch
          /\ loading' = FALSE
          /\ error' = CASE outcome = "no_face" -> "No face detected in the image"
                        [] outcome = "no_filepath" -> "No filepath returned from server"
                        [] OTHER -> "Network Error"
          /\ errorJob' = 0
  /\ UNCHANGED <<jobId, jobStatus, nextJob, remote, effInterval, timerVars, requests, loopVars, histVars>>
  /\ UNCHANGED <<trainVars, form, voiceVars, renderVars, recVars>>

\* The message a handler sets when its generate request is answered without
\* success (rejected) or throws (transport).
LaunchFailureMessage(path, outcome) ==
  CASE path = "image"  -> "Network Error"
    [] path = "text"   -> IF outcome = "rejected" THEN "Failed to initiate video generation"
                          ELSE "Error generating video. Please try again."
    [] path = "ad"     -> IF outcome = "rejected" THEN "Failed to generate ad"
                          ELSE "Network Error"
    [] path = "adv"    -> IF outcome = "rejected" THEN "Failed to generate advanced video"
                          ELSE "Error generating advanced video. Please try again."
    [] path = "genAd"  -> "Failed to generate ad video"
    [] path = "genAdv" -> "Failed to generate advanced video"

\* The service accepts the generate request and creates job nextJob; the
\* job runs from then on, while the answer travels back to the client.
LaunchAccepted ==
  /\ pending # NoLaunch /\ pending.stage = "launch"
  /\ nextJob <= MaxJobs
  /\ pending' = [pending EXCEPT !.stage = "accepted"]
  /\ nextJob' = nextJob + 1
  /\ UNCHANGED <<jobId, jobStatus, loading, error, errorJob, remote, effInterval, timerVars, requests,
                 loopVars, histVars>>
  /\ UNCHANGED <<trainVars, noFace, form, voiceVars, renderVars, recVars>>

\* A launch handler resumes with the job id of its accepted request.  It
\* stores the id and, depending on the handler, a fresh jobStatus and its own
\* polling loop, whose first query is started at once.
LaunchSucceeded ==
  /\ pending # NoLaunch /\ pending.stage = "accepted"
  /\ pending' = NoLaunch
  /\ LET path == pending.path
         j == nextJob - 1
         ownLoop == path \in {"text", "ad", "adv"}
     IN /\ ownLoop => Budget
        /\ \E resp \in Responses(j) :
             Commit(j,
                    IF path \in {"image", "adv"} THEN InitialStatus(j) ELSE jobStatus,
                    effInterval,
                    IF ownLoop THEN requests \cup {NewRequest(j, path, resp)}
                    ELSE requests)
        /\ queries' = IF ownLoop THEN [queries EXCEPT ![j] = @ + 1] ELSE queries
        /\ adInterval' = IF path = "ad" THEN adInterval \cup {j} ELSE adInterval
        /\ adCeiling' = IF path = "ad"
                        THEN adCeiling \cup {[job |-> j, loading |-> pending.loading]}
                        ELSE adCeiling
  /\ UNCHANGED <<loading, error, errorJob, nextJob, remote, chainTimer, failSeen, termHandled,
                 discarded>>
  /\ UNCHANGED <<trainVars, noFace, form, voiceVars, renderVars, recVars>>

LaunchFailures == {"rejected", "transport"}

\* A launch handler resumes with a generate request that was answered
\* without success or threw.
LaunchFailed(outcome) ==
  /\ pending # NoLaunch /\ pending.stage = "launch"
  /\ pending' = NoLaunch
  /\ loading' = FALSE
  /\ error' = LaunchFailureMessage(pending.path, outcome)
  /\ errorJob' = 0
  /\ UNCHANGED <<jobId, jobStatus, nextJob, remote, effInterval, timerVars, requests, loopVars,
                 histVars>>
  /\ UNCHANGED <<trainVars, noFace, form, voiceVars, renderVars, recVars>>

\* ------------------------------------------------------------ view resets
Discard == discarded' = [j \in JobIds |-> discarded[j] \/ j = jobId]

\* "Back to Main Menu"
BackToMainMenu ==
  /\ Commit(0, NoStatus, effInterval, requests)
  /\ error' = NullStr
  /\ errorJob' = 0
  /\ Discard
  /\ UNCHANGED <<loading, pending, nextJob, remote, loopVars, queries, failSeen,
                 termHandled>>
  /\ UNCHANGED <<trainVars, noFace, form, voiceVars, renderVars, recVars>>

\* "Create Another", shown with the finished video
CreateAnother ==
  /\ jobStatus.status = "completed" /\ jobStatus.result
  /\ Commit(0, NoStatus, effInterval, requests)
  /\ Discard
  /\ UNCHANGED <<loading, error, errorJob, pending, nextJob, remote, loopVars, queries, failSeen, termHandled>>
  /\ UNCHANGED <<trainVars, noFace, form, voiceVars, renderVars, recVars>>

\* ------------------------------------------------------- custom training
\* Training assets held at most, and the saturation of the uncounted
\* history counter.
MaxAssets == 4
MaxUncounted == 2
MaxModels == 2

\* the state of the job flow that the training flow never writes
jobVars == <<jobId, jobStatus, loading, pending, nextJob, remote, effInterval, timerVars, loopVars,
             requests, histVars>>

\* model ids the upload-training endpoint hands out
ModelIds == 1..MaxModels

\* while (!isCompleted && attempts < 30)
MaxAttempts == 30

TooFewAssetsMutant(n) == n < 2

\* if (trainingImages.length < 3)
TooFewAssets(n) == n < 3

\* the dropzone of the training tab appends the accepted files
handleTrainingImagesUpload ==
  /\ trainingImages < MaxAssets
  /\ trainingImages' = trainingImages + 1
  /\ UNCHANGED <<trainingInProgress, trainingProgress, modelId, tpc, tModel, attempts,
                 uncounted, tSent, tAcks, tSeen, tPhase, tOutcome, lastCompleted>>
  /\ UNCHANGED <<jobVars, error, errorJob>>
  /\ UNCHANGED <<noFace, form, voiceVars, renderVars, recVars>>

removeTrainingImage ==
  /\ trainingImages > 0
  /\ trainingImages' = trainingImages - 1
  /\ UNCHANGED <<trainingInProgress, trainingProgress, modelId, tpc, tModel, attempts,
                 uncounted, tSent, tAcks, tSeen, tPhase, tOutcome, lastCompleted>>
  /\ UNCHANGED <<jobVars, error, errorJob>>
  /\ UNCHANGED <<noFace, form, voiceVars, renderVars, recVars>>

\* startTraining from its call to its first await (POST upload-training).
\* Its button is rendered while modelId is null and is disabled while
\* trainingInProgress.  The button is disabled below three assets as well;
\* the function repeats that test and returns at once.
startTraining ==
  /\ modelId = 0
  /\ ~trainingInProgress
  /\ tpc = "idle"
  /\ errorJob' = 0
  /\ IF TooFewAssets(trainingImages)
     THEN /\ error' = "Please upload at least 3 images or videos for training"
          /\ tOutcome' = "rejected"
          /\ UNCHANGED <<trainingInProgress, tpc, tModel, attempts, uncounted, tSent, tAcks,
                         tSeen, tPhase>>
     ELSE /\ trainingInProgress' = TRUE
          /\ error' = NullStr
          /\ tpc' = "upload"
          /\ tModel' = 0
          /\ attempts' = 0
          /\ uncounted' = 0
          /\ tSent' = {"upload"}
          /\ tAcks' = {}
          /\ tSeen' = "none"
          /\ tPhase' = "none"
          /\ tOutcome' = "running"
  /\ UNCHANGED <<trainingImages, trainingProgress, modelId, lastCompleted>>
  /\ UNCHANGED <<jobVars, noFace, form, voiceVars, renderVars, recVars>>

\* The catch block of startTraining, and what ends the run with it.
TrainingFails(message, outcome) ==
  /\ error' = message
  /\ errorJob' = 0
  /\ trainingInProgress' = FALSE
  /\ tpc' = "idle"
  /\ tOutcome' = outcome

AcceptedMutant(outcome) == outcome \in {"ok", "rejected"}

\* if (!response.data.success) throw ...: how the answers to the upload and
\* to the start request are told apart
Accepted(outcome) == outcome \in {"ok"}

\* answers to the upload and to the start request: success, success false
\* without and with an error text of the service, a throw of axios
CallOutcomes == {"ok", "rejected", "rejected_text", "transport"}

CallFailureMessage(outcome, fallback) ==
  CASE outcome = "rejected" -> fallback
    [] outcome = "rejected_text" -> "<error text of the service>"
    [] OTHER -> "Network Error"

\* startTraining resumes after POST upload-training; on success it issues
\* POST training/start with the model id of the answer.
TrainingUploadResponse(outcome, m) ==
  /\ tpc = "upload"
  /\ tAcks' = IF outcome = "ok" THEN tAcks \cup {"upload"} ELSE tAcks
  /\ IF Accepted(outcome)
     THEN /\ trainingProgress' = 30
          /\ tModel' = m
          /\ tpc' = "start"
          /\ tSent' = tSent \cup {"start"}
          /\ UNCHANGED <<trainingInProgress, error, errorJob, tOutcome>>
     ELSE /\ TrainingFails(CallFailureMessage(outcome, "Failed to upload training files"),
                           "upload_failed")
          /\ UNCHANGED <<trainingProgress, tModel, tSent>>
  /\ UNCHANGED <<trainingImages, modelId, attempts, uncounted, tSeen, tPhase,
                 lastCompleted>>
  /\ UNCHANGED <<jobVars, noFace, form, voiceVars, renderVars, recVars>>

\* startTraining resumes after POST training/start; on success it enters
\* the polling loop and sleeps 10 s.
TrainingStartResponse(outcome) ==
  /\ tpc = "start"
  /\ tAcks' = IF outcome = "ok" THEN tAcks \cup {"start"} ELSE tAcks
  /\ IF Accepted(outcome)
     THEN /\ trainingProgress' = 50
          /\ attempts' = 0
          /\ tpc' = "sleep"
          /\ UNCHANGED <<trainingInProgress, error, errorJob, tOutcome>>
     ELSE /\ TrainingFails(CallFailureMessage(outcome, "Failed to start training"),
                           "start_failed")
          /\ UNCHANGED <<trainingProgress, attempts>>
  /\ UNCHANGED <<trainingImages, modelId, tModel, uncounted, tSent, tSeen, tPhase,
                 lastCompleted>>
  /\ UNCHANGED <<jobVars, noFace, form, voiceVars, renderVars, recVars>>

\* The 10 s wait of the loop ends and the status query is issued.
TrainingWake ==
  /\ tpc = "sleep"
  /\ tpc' = "status"
  /\ tSent' = tSent \cup {"status"}
  /\ UNCHANGED <<trainingImages, trainingInProgress, trainingProgress, modelId, tModel,
                 attempts, uncounted, tAcks, tSeen, tPhase, tOutcome, lastCompleted>>
  /\ UNCHANGED <<jobVars, error, errorJob>>
  /\ UNCHANGED <<noFace, form, voiceVars, renderVars, recVars>>

\* The phases the switch of the loop knows, and the progress it shows for each.
KnownPhases == {"preprocessing", "feature_extraction", "training", "finetuning", "completed"}

CheckpointMutant(status) ==
  CASE status = "preprocessing" -> 60
    [] status = "feature_extraction" -> 70
    [] status = "training" -> 70
    [] status = "finetuning" -> 90
    [] status = "completed" -> 100

Checkpoint(status) ==
  CASE status = "preprocessing" -> 60
    [] status = "feature_extraction" -> 70
    [] status = "training" -> 80
    [] status = "finetuning" -> 90
    [] status = "completed" -> 100

AbortsRunMutant(status) == FALSE

\* case 'failed': throw
AbortsRun(status) == status = "failed"

SetsModelMutant(status) == status \in {"finetuning", "completed"}

\* case 'completed': setModelId(modelId); isCompleted = true
SetsModel(status) == status = "completed"

\* What a status query can be answered with: a throw of axios, success
\* false, or a model status, which the service may give any label.
StatusAnswers == {"transport", "unsuccessful"} \cup KnownPhases \cup {"failed", "queued"}

\* history: a throw, success false, the model status 'failed', another model status
AnswerKind(answer) ==
  IF answer \in {"transport", "unsuccessful", "failed"} THEN answer ELSE "status"

Saturated(n) == IF n < MaxUncounted THEN n + 1 ELSE n

\* startTraining resumes after GET training/status: one pass through the
\* rest of the loop body and the loop condition, up to the next await or to
\* the end of the function.
TrainingStatusResponse(answer) ==
  /\ tpc = "status"
  /\ tSeen' = AnswerKind(answer)
  /\ IF answer = "transport"
     THEN /\ TrainingFails("Network Error", "query_failed")
          /\ uncounted' = Saturated(uncounted)
          /\ UNCHANGED <<trainingProgress, modelId, attempts, tPhase, lastCompleted>>
     ELSE IF answer = "unsuccessful"
     THEN /\ tpc' = "sleep"
          /\ uncounted' = Saturated(uncounted)
          /\ UNCHANGED <<trainingInProgress, trainingProgress, modelId, attempts, tPhase,
                         tOutcome, lastCompleted, error, errorJob>>
     ELSE IF AbortsRun(answer)
     THEN /\ TrainingFails("Training failed. Please try again.", "remote_failed")
          /\ uncounted' = Saturated(uncounted)
          /\ UNCHANGED <<trainingProgress, modelId, attempts, tPhase, lastCompleted>>
     ELSE /\ trainingProgress' = IF answer \in KnownPhases THEN Checkpoint(answer)
                                 ELSE trainingProgress
          /\ tPhase' = IF answer \in KnownPhases THEN answer ELSE tPhase
          /\ modelId' = IF SetsModel(answer) THEN tModel ELSE modelId
          /\ attempts' = attempts + 1
          /\ UNCHANGED uncounted
          /\ IF answer = "completed"
             THEN /\ trainingInProgress' = FALSE
                  /\ tpc' = "idle"
                  /\ tOutcome' = "completed"
                  /\ lastCompleted' = tModel
                  /\ UNCHANGED <<error, errorJob>>
             ELSE IF attempts' < MaxAttempts
             THEN /\ tpc' = "sleep"
                  /\ UNCHANGED <<trainingInProgress, tOutcome, lastCompleted, error, errorJob>>
             ELSE /\ TrainingFails(
                       "Training timed out. The process may still be running in the background.",
                       "timed_out")
                  /\ UNCHANGED lastCompleted
  /\ UNCHANGED <<trainingImages, tModel, tSent, tAcks>>
  /\ UNCHANGED <<jobVars, noFace, form, voiceVars, renderVars, recVars>>

\* status queries the run has issued (exact while uncounted is below MaxUncounted)
TrainingQueries == attempts + uncounted + (IF tpc = "status" THEN 1 ELSE 0)

\* ------------------------------------------------------------ voices
MaxRecordings == 2

\* selectedVoice === null
NoVoice == [kind |-> "none", n |-> 0]

\* a voice the service lists from the start (professional, male)
BuiltinVoice == [kind |-> "builtin", n |-> 0]

\* the voice the service registers when it accepts a clone request
ClonedVoice(k) == [kind |-> "cloned", n |-> k]

NewVoiceMutant(k) == [kind |-> "cloned", n |-> k]

\* newVoice: id = response.data.voice_id of the upload of recording k
NewVoice(k) == [kind |-> "raw", n |-> k]

\* what neither the voice flow nor fetchVoices writes
nonVoiceVars == <<jobId, jobStatus, errorJob, pending, nextJob, remote, effInterval, timerVars, loopVars,
                  requests, histVars, form, noFace, trainVars>>

\* The answer to GET voices/available is fixed when the service handles the
\* request: its list (ok), or success false or a throw of axios (not ok).
\* fetchVoices resumes: on success it stores the list and picks the default
\* voice of the advanced video (a professional male voice, else the first).
FetchVoicesResponse(r) ==
  /\ r \in fetches
  /\ fetches' = fetches \ {r}
  /\ IF r.answer.ok
     THEN /\ availableVoices' = r.answer.voices
          /\ advancedVideoVoiceId' =
               IF BuiltinVoice \in r.answer.voices THEN BuiltinVoice
               ELSE IF r.answer.voices # {} THEN CHOOSE v \in r.answer.voices : TRUE
               ELSE advancedVideoVoiceId
     ELSE UNCHANGED <<availableVoices, advancedVideoVoiceId>>
  /\ UNCHANGED <<uploadedVoices, selectedVoice, registry, vpc, curVoice, nextVoice, nextFetch,
                 notified, vDecision, cloneRequests>>
  /\ UNCHANGED <<nonVoiceVars, renderVars, loading, error, recVars>>

\* the voice dropdown: the user picks one of the listed voices
SelectVoice(v) ==
  /\ v \in availableVoices \cup uploadedVoices
  /\ selectedVoice' = v
  /\ UNCHANGED <<uploadedVoices, availableVoices, advancedVideoVoiceId, registry, vpc, curVoice,
                 nextVoice, fetches, nextFetch, notified, vDecision, cloneRequests>>
  /\ UNCHANGED <<nonVoiceVars, renderVars, loading, error, recVars>>

\* The recorder stops and uploadVoiceRecording posts the recording.
uploadVoiceRecording ==
  /\ vpc = "idle"
  /\ nextVoice <= MaxRecordings
  /\ vpc' = "upload"
  /\ curVoice' = nextVoice
  /\ nextVoice' = nextVoice + 1
  /\ UNCHANGED <<uploadedVoices, selectedVoice, availableVoices, advancedVideoVoiceId, registry,
                 fetches, nextFetch, notified, vDecision, cloneRequests>>
  /\ UNCHANGED <<nonVoiceVars, renderVars, loading, error, recVars>>

\* answers to POST upload-voice and POST clone-voice
VoiceOutcomes == {"ok", "rejected", "transport"}

\* what the user does with confirm() and, after accepting, with prompt()
VoiceDecisions == {"declined", "accepted", "cancelled"}

NameGivenMutant(decision) == decision \in {"accepted", "cancelled"}

\* if (!voiceName) of cloneVoice: prompt() returned a non-empty name
NameGiven(decision) == decision = "accepted"

\* uploadVoiceRecording resumes after POST upload-voice.  On success the
\* user is asked whether to clone: if not, the uploaded voice is listed and
\* selected; if so, cloneVoice runs up to its request, or returns when the
\* user gives no name.
VoiceUploadResponse(outcome, decision) ==
  /\ vpc = "upload"
  /\ vDecision' = IF outcome = "ok" THEN decision ELSE "none"
  /\ IF outcome = "ok" /\ decision = "declined"
     THEN /\ uploadedVoices' = uploadedVoices \cup {NewVoice(curVoice)}
          /\ selectedVoice' = NewVoice(curVoice)
          /\ vpc' = "idle"
          /\ UNCHANGED <<loading, error, errorJob, notified, cloneRequests>>
     ELSE IF outcome = "ok" /\ NameGiven(decision)
     THEN /\ loading' = TRUE
          /\ error' = NullStr
          /\ errorJob' = 0
          /\ vpc' = "clone"
          /\ cloneRequests' = cloneRequests \cup {curVoice}
          /\ UNCHANGED <<uploadedVoices, selectedVoice, notified>>
     ELSE IF outcome = "ok"
     THEN /\ loading' = FALSE
          /\ error' = NullStr
          /\ errorJob' = 0
          /\ vpc' = "idle"
          /\ UNCHANGED <<uploadedVoices, selectedVoice, notified, cloneRequests>>
     ELSE /\ vpc' = "idle"
          /\ notified' = IF outcome = "transport"
                          THEN "Failed to upload voice recording. Please try again."
                          ELSE notified
          /\ UNCHANGED <<uploadedVoices, selectedVoice, loading, error, errorJob, cloneRequests>>
  /\ UNCHANGED <<availableVoices, advancedVideoVoiceId, registry, curVoice, nextVoice, fetches,
                 nextFetch>>
  /\ UNCHANGED <<jobId, jobStatus, pending, nextJob, remote, effInterval, timerVars, loopVars, requests,
                 histVars, form, noFace, trainVars, renderVars>>
  /\ UNCHANGED recVars

\* The voice dropzone hands handleVoiceUpload its files; with none it
\* returns, else it posts the first one.
handleVoiceUpload(files) ==
  /\ vpc = "idle"
  /\ nextVoice <= MaxRecordings
  /\ IF files = 0
     THEN UNCHANGED <<vpc, curVoice, nextVoice>>
     ELSE /\ vpc' = "file"
          /\ curVoice' = nextVoice
          /\ nextVoice' = nextVoice + 1
  /\ UNCHANGED <<uploadedVoices, selectedVoice, availableVoices, advancedVideoVoiceId, registry,
                 fetches, nextFetch, notified, vDecision, cloneRequests>>
  /\ UNCHANGED <<nonVoiceVars, renderVars, loading, error, recVars>>

\* handleVoiceUpload resumes after POST upload-voice: on success the
\* uploaded voice is listed and selected; a failure is only logged.
VoiceFileResponse(outcome) ==
  /\ vpc = "file"
  /\ vpc' = "idle"
  /\ IF outcome = "ok"
     THEN /\ uploadedVoices' = uploadedVoices \cup {NewVoice(curVoice)}
          /\ selectedVoice' = NewVoice(curVoice)
     ELSE UNCHANGED <<uploadedVoices, selectedVoice>>
  /\ UNCHANGED <<availableVoices, advancedVideoVoiceId, registry, curVoice, nextVoice, fetches,
                 nextFetch, notified, vDecision, cloneRequests>>
  /\ UNCHANGED <<nonVoiceVars, renderVars, loading, error, recVars>>

\* cloneVoice resumes after POST clone-voice.  On success the service has
\* registered the cloned voice; cloneVoice starts fetchVoices without
\* awaiting it and selects the voice.  In every case loading ends false.
CloneVoiceResponse(outcome) ==
  /\ vpc = "clone"
  /\ vpc' = "idle"
  /\ loading' = FALSE
  /\ IF outcome = "ok"
     THEN /\ registry' = registry \cup {ClonedVoice(curVoice)}
          /\ notified' = "cloned successfully"
          /\ selectedVoice' = ClonedVoice(curVoice)
          /\ \E ok \in BOOLEAN :
               fetches' = fetches \cup
                 {[n |-> nextFetch,
                   answer |-> [ok |-> ok, voices |-> IF ok THEN registry' ELSE {}]]}
          /\ nextFetch' = nextFetch + 1
     ELSE /\ notified' = IF outcome = "rejected" THEN "Failed to clone voice: Unknown error"
                          ELSE "Failed to clone voice. Please try again."
          /\ UNCHANGED <<registry, selectedVoice, fetches, nextFetch>>
  /\ UNCHANGED <<uploadedVoices, availableVoices, advancedVideoVoiceId, curVoice, nextVoice,
                 vDecision, cloneRequests>>
  /\ UNCHANGED <<nonVoiceVars, renderVars, error, recVars>>

\* ------------------------------------------------------------ recorder
\* calls of startRecording, and the largest recordingTime told apart
MaxStarts == 3
MaxRecordingTime == 3

\* what the recorder handlers do not write
nonRecVars == <<nonVoiceVars, voiceVars, loading, error>>

\* "Start Recording", shown while isRecording is false: startRecording
\* runs up to await getUserMedia.
startRecording ==
  /\ ~isRecording
  /\ nextStart <= MaxStarts
  /\ acquiring' = acquiring \cup {nextStart}
  /\ nextStart' = nextStart + 1
  /\ UNCHANGED <<isRecording, recordingTime, timerRef, recTimers, mediaRecorderRef>>
  /\ UNCHANGED <<nonRecVars, renderVars>>

\* startRecording resumes after getUserMedia.  With the microphone (ok) it
\* creates and starts the MediaRecorder of call k, sets isRecording,
\* zeroes recordingTime and starts the timer, whose id replaces whatever
\* timerRef held; without, it alerts.
MicrophoneResponse(k, ok) ==
  /\ k \in acquiring
  /\ acquiring' = acquiring \ {k}
  /\ IF ok
     THEN /\ mediaRecorderRef' = k
          /\ isRecording' = TRUE
          /\ recordingTime' = 0
          /\ recTimers' = recTimers \cup {k}
          /\ timerRef' = k
     ELSE UNCHANGED <<mediaRecorderRef, isRecording, recordingTime, recTimers, timerRef>>
  /\ UNCHANGED nextStart
  /\ UNCHANGED <<nonRecVars, renderVars>>

\* a timer of startRecording fires: setRecordingTime(prevTime => prevTime + 1)
RecordingTick(t) ==
  /\ t \in recTimers
  /\ recordingTime < MaxRecordingTime
  /\ recordingTime' = recordingTime + 1
  /\ UNCHANGED <<isRecording, timerRef, recTimers, mediaRecorderRef, acquiring, nextStart>>
  /\ UNCHANGED <<nonRecVars, renderVars>>

\* "Stop Recording", shown while isRecording is true.  The recorder's
\* onstop then hands the recording to uploadVoiceRecording.
stopRecording ==
  /\ isRecording
  /\ IF mediaRecorderRef # 0 /\ isRecording
     THEN /\ isRecording' = FALSE
          /\ recTimers' = IF timerRef # 0 THEN recTimers \ {timerRef} ELSE recTimers
          /\ timerRef' = 0
     ELSE UNCHANGED <<isRecording, recTimers, timerRef>>
  /\ UNCHANGED <<recordingTime, mediaRecorderRef, acquiring, nextStart>>
  /\ UNCHANGED <<nonRecVars, renderVars>>

\* -------------------------------------------------------- progress panel
\* largest estimated_time_remaining rendered
MaxSeconds == 130

\* not rendered yet
Unrendered == "<unrendered>"

\* estimated_time_remaining?: number, as the panel may receive it
Undefined == [defined |-> FALSE, value |-> 0]

Seconds == {Undefined} \cup {[defined |-> TRUE, value |-> v] : v \in -MaxSeconds..MaxSeconds}

\* the labels with a description of their own, and some without
DescribedLabels == {"generating_script", "generating_video", "adding_voiceover",
                    "enhancing_video", "processing_audio", "finalizing"}

StatusLabels == DescribedLabels \cup {"initializing", "processing", "queued"}

Panels == [status : StatusLabels, estimated_time_remaining : Seconds]

\* what no handler but the renderer writes
nonRenderVars == <<nonVoiceVars, voiceVars, loading, error>>

\* String(n).padStart(2, '0')
Pad2(str) == IF Len(str) < 2 THEN "0" \o str ELSE str

\* the % of JavaScript: the remainder has the sign of the dividend
JsRemainder(a, b) == IF a >= 0 THEN a % b ELSE -((-a) % b)

\* Math.ceil(a / b) for b > 0
JsCeilDiv(a, b) == -((-a) \div b)

\* formatTime(seconds)
formatTime(seconds) ==
  IF ~seconds.defined \/ seconds.value = 0
  THEN "00:00"
  ELSE Pad2(ToString(seconds.value \div 60)) \o ":"
         \o Pad2(ToString(JsRemainder(seconds.value, 60)))

\* the "Estimated time remaining" line of the panel; "" when it is not shown
RemainingTime(seconds) ==
  IF seconds.defined /\ seconds.value > 0
  THEN IF seconds.value > 60
       THEN ToString(JsCeilDiv(seconds.value, 60)) \o " minutes"
       ELSE ToString(seconds.value) \o " seconds"
  ELSE ""

\* the status description block of the panel; "" when no paragraph is rendered
StatusDescription(status) ==
  CASE status = "generating_script" -> "Creating an engaging script based on your input..."
    [] status = "generating_video" -> "Crafting your video with AI-powered visuals..."
    [] status = "adding_voiceover" -> "Adding professional narration to your video..."
    [] status = "enhancing_video" -> "Polishing and enhancing your video for best quality..."
    [] status = "processing_audio" -> "Fine-tuning audio for perfect synchronization..."
    [] status = "finalizing" -> "Putting the finishing touches on your masterpiece..."
    [] OTHER -> ""

ApplyFormatTime ==
  /\ timeText = Unrendered
  /\ timeText' = formatTime(panel.estimated_time_remaining)
  /\ UNCHANGED <<panel, remainingText, description>>
  /\ UNCHANGED nonRenderVars
  /\ UNCHANGED recVars

RenderRemainingTime ==
  /\ remainingText = Unrendered
  /\ remainingText' = RemainingTime(panel.estimated_time_remaining)
  /\ UNCHANGED <<panel, timeText, description>>
  /\ UNCHANGED nonRenderVars
  /\ UNCHANGED recVars

RenderStatusDescription ==
  /\ description = Unrendered
  /\ description' = StatusDescription(panel.status)
  /\ UNCHANGED <<panel, timeText, remainingText>>
  /\ UNCHANGED nonRenderVars
  /\ UNCHANGED recVars

\* ---------------------------------------------------------- specification
\* the state of Home after construction, the progress panel aside
HomeInit ==
  /\ jobId = 0
  /\ jobStatus = NoStatus
  /\ loading = FALSE
  /\ error = NullStr
  /\ errorJob = 0
  /\ pending = NoLaunch
  /\ nextJob = 1
  /\ remote = [j \in JobIds |-> RemoteStart]
  /\ effInterval = 0
  /\ effTimers = {}
  /\ effCur = 0
  /\ chainTimer = {}
  /\ adInterval = {}
  /\ adCeiling = {}
  /\ requests = {}
  /\ queries = [j \in JobIds |-> 0]
  /\ failSeen = [j \in JobIds |-> FALSE]
  /\ termHandled = [j \in JobIds |-> 0]
  /\ discarded = [j \in JobIds |-> FALSE]
  /\ noFace = FALSE
  /\ uploadedVoices = {}
  /\ selectedVoice = NoVoice
  /\ availableVoices = {}
  /\ advancedVideoVoiceId = NoVoice
  /\ registry = {BuiltinVoice}
  /\ vpc = "idle"
  /\ curVoice = 0
  /\ nextVoice = 1
  /\ fetches = {[n |-> 0, answer |-> [ok |-> TRUE, voices |-> {BuiltinVoice}]]}
  /\ nextFetch = 1
  /\ notified = "none"
  /\ vDecision = "none"
  /\ cloneRequests = {}
  /\ form = [f \in Fields |-> FALSE]
  /\ isRecording = FALSE
  /\ recordingTime = 0
  /\ timerRef = 0
  /\ recTimers = {}
  /\ mediaRecorderRef = 0
  /\ acquiring = {}
  /\ nextStart = 1
  /\ trainingImages = 0
  /\ trainingInProgress = FALSE
  /\ trainingProgress = 0
  /\ modelId = 0
  /\ tpc = "idle"
  /\ tModel = 0
  /\ attempts = 0
  /\ uncounted = 0
  /\ tSent = {}
  /\ tAcks = {}
  /\ tSeen = "none"
  /\ tPhase = "none"
  /\ tOutcome = "none"
  /\ lastCompleted = 0

Init ==
  /\ HomeInit
  /\ panel = [status |-> "initializing", estimated_time_remaining |-> Undefined]
  /\ timeText = Unrendered
  /\ remainingText = Unrendered
  /\ description = Unrendered

Next ==
  \/ \E path \in Paths, fieldsOk \in BOOLEAN : LaunchStart(path, fieldsOk)
  \/ \E outcome \in UploadOutcomes : UploadResponse(outcome)
  \/ LaunchAccepted
  \/ LaunchSucceeded
  \/ \E outcome \in LaunchFailures : LaunchFailed(outcome)
  \/ \E j \in JobIds : RemoteAdvance(j)
  \/ EffectTick
  \/ \E r \in requests : EffectResponse(r)
  \/ \E r \in requests : TextResponse(r)
  \/ \E r \in requests : AdvResponse(r)
  \/ \E r \in requests : AdResponse(r)
  \/ \E t \in chainTimer : ChainTimeout(t)
  \/ \E j \in JobIds : AdTick(j)
  \/ \E c \in adCeiling : AdCeilingFire(c)
  \/ BackToMainMenu
  \/ CreateAnother

Spec == Init /\ [][Next]_vars

\* The training tab next to the image tab: the assets, startTraining, and
\* handleGenerateVideo up to its generate request, which carries the model id.
TrainingNext ==
  \/ handleTrainingImagesUpload
  \/ removeTrainingImage
  \/ startTraining
  \/ \E outcome \in CallOutcomes, m \in ModelIds : TrainingUploadResponse(outcome, m)
  \/ \E outcome \in CallOutcomes : TrainingStartResponse(outcome)
  \/ TrainingWake
  \/ \E answer \in StatusAnswers : TrainingStatusResponse(answer)
  \/ \E fieldsOk \in BOOLEAN : LaunchStart("image", fieldsOk)
  \/ \E outcome \in UploadOutcomes : UploadResponse(outcome)
  \/ \E outcome \in LaunchFailures : LaunchFailed(outcome)

SpecTraining == Init /\ [][TrainingNext]_vars

\* The forms and the launch handlers up to their generate request: every
\* handler is called on the fields as they are.
LaunchGuardNext ==
  \/ \E f \in Fields : EditField(f)
  \/ \E path \in Paths : LaunchStart(path, RequiredPresent(path))
  \/ \E outcome \in UploadOutcomes : UploadResponse(outcome)
  \/ \E outcome \in LaunchFailures : LaunchFailed(outcome)

SpecLaunchGuard == Init /\ [][LaunchGuardNext]_vars

\* The voice recorder's upload, cloning, the voice list and the dropdown.
VoiceNext ==
  \/ uploadVoiceRecording
  \/ \E outcome \in VoiceOutcomes, decision \in VoiceDecisions :
       VoiceUploadResponse(outcome, decision)
  \/ \E outcome \in VoiceOutcomes : CloneVoiceResponse(outcome)
  \/ \E r \in fetches : FetchVoicesResponse(r)
  \/ \E v \in availableVoices \cup uploadedVoices : SelectVoice(v)
  \/ \E files \in 0..1 : handleVoiceUpload(files)
  \/ \E outcome \in VoiceOutcomes : VoiceFileResponse(outcome)

SpecVoice == Init /\ [][VoiceNext]_vars

\* ------------------------------------------- a job next to the voice flow
\* handleGenerateVideo and the poller effect running while a recording is
\* uploaded and cloned: both flows write loading and error.  One job and
\* one recording.
SessionNext ==
  \/ nextJob = 1 /\ LaunchStart("image", TRUE)
  \/ UploadResponse("ok")
  \/ LaunchAccepted
  \/ LaunchSucceeded
  \/ \E j \in JobIds : RemoteAdvance(j)
  \/ EffectTick
  \/ \E r \in requests : EffectResponse(r)
  \/ nextVoice = 1 /\ uploadVoiceRecording
  \/ \E decision \in VoiceDecisions : VoiceUploadResponse("ok", decision)
  \/ \E outcome \in VoiceOutcomes : CloneVoiceResponse(outcome)

SpecSession == Init /\ [][SessionNext]_vars

RecordingNext ==
  \/ startRecording
  \/ \E k \in acquiring, ok \in BOOLEAN : MicrophoneResponse(k, ok)
  \/ \E t \in recTimers : RecordingTick(t)
  \/ stopRecording

SpecRecording == Init /\ [][RecordingNext]_vars

\* The progress panel on every status object it may be given.
RenderInit ==
  /\ HomeInit
  /\ panel \in Panels
  /\ timeText = Unrendered
  /\ remainingText = Unrendered
  /\ description = Unrendered

RenderNext ==
  \/ ApplyFormatTime
  \/ RenderRemainingTime
  \/ RenderStatusDescription

SpecRender == RenderInit /\ [][RenderNext]_vars


\* ------------------------------------------------------------- properties
\* The step delivers the answer of status query r to its callback: only the
\* callback that resumes removes a query from the ones in flight.
Delivered(r) == r \in requests /\ \A q \in requests' : q.n # r.n

\* Polling loops of job j that hold a live timer.
LiveLoops(j) ==
  (IF effInterval = j THEN {"effect"} ELSE {})
  \cup {t.loop : t \in {u \in chainTimer : u.job = j}}
  \cup (IF j \in adInterval THEN {"ad"} ELSE {})

InFlight(j) == {r \in requests : r.job = j}

\* C1: once a status query of a job has returned "completed" or "failed",
\* no further status query is issued for that job id.
C1_NoQueryAfterTerminal ==
  [][\A j \in JobIds : termHandled[j] > 0 => queries'[j] = queries[j]]_vars

\* C2: once a status query of a job has failed at transport level, no
\* further status query is issued for that job id, by any loop.
C2_NoQueryAfterTransportFailure ==
  [][\A j \in JobIds : failSeen[j] => queries'[j] = queries[j]]_vars

\* C3: when a status query fails at transport level, the job is reported as
\* terminal-failed: the callback leaves jobStatus with status "failed" and a
\* non-empty error message, in every polling path.
C3_TransportFailureReportsFailed ==
  [][\A r \in requests :
       (Delivered(r) /\ ~r.resp.ok)
         => (jobStatus'.status = "failed" /\ error' # NullStr)]_vars

\* C4: at most one polling loop (live interval or pending rescheduled
\* timeout) is active for a given job id.
C4_OneLoopPerJob == \A j \in JobIds : Cardinality(LiveLoops(j)) <= 1

\* C5: at most one status request of a job is in flight.
C5_OneRequestInFlight == \A j \in JobIds : Cardinality(InFlight(j)) <= 1

\* C6: the progress stored in jobStatus never decreases from one applied
\* update of a job to the next while its status is non-terminal.
C6_ProgressNeverDecreases ==
  [][(/\ jobStatus.job # 0
      /\ jobStatus'.job = jobStatus.job
      /\ ~Terminal(jobStatus.status)
      /\ ~Terminal(jobStatus'.status))
       => jobStatus'.progress >= jobStatus.progress]_vars

\* C7: after the active job was discarded by a view reset, no in-flight
\* status response of that job writes jobStatus, loading or error again.
C7_NoWriteAfterDiscard ==
  [][\A r \in requests :
       (Delivered(r) /\ discarded[r.job])
         => UNCHANGED <<jobStatus, loading, error>>]_vars

\* C8: loops for two different job ids are never active at the same time.
C8_LoopsOfOneJobOnly ==
  \A j1, j2 \in JobIds : (LiveLoops(j1) # {} /\ LiveLoops(j2) # {}) => j1 = j2

\* C9: the terminal branch is executed at most once per job.
C9_TerminalHandledOnce == \A j \in JobIds : termHandled[j] <= 1

\* C10: the active job never shows a result together with an error, be it
\* jobStatus.error or the error message set by polling that job.
C10_ResultExcludesError ==
  jobStatus.result => (~jobStatus.error /\ errorJob # jobStatus.job)


\* ------------------------------------------------- training properties
\* C11: while fewer than three training assets are held and no run is in
\* progress, a call of startTraining only sets the error that asks for at
\* least 3 assets: no step issues a training request or changes
\* trainingInProgress, trainingProgress or modelId, and the call is rejected.
C11_TooFewAssetsRejected ==
  [][(trainingImages < 3 /\ ~trainingInProgress)
       => /\ trainingInProgress' = trainingInProgress
          /\ trainingProgress' = trainingProgress
          /\ modelId' = modelId
          /\ tSent' = tSent
          /\ tpc' = "idle"
          /\ tOutcome' # tOutcome
               => /\ tOutcome' = "rejected"
                  /\ error' = "Please upload at least 3 images or videos for training"]_vars

\* a call with too few assets is rejected after an earlier run has failed
C11_Witness ==
  /\ tOutcome = "rejected"
  /\ trainingImages < 3
  /\ error = "Please upload at least 3 images or videos for training"
  /\ trainingProgress = 90

\* status queries of the run that have been answered
TrainingAnswered == attempts + uncounted

\* C12: a run has timed out exactly when 30 status queries have been
\* answered and none of them reported "completed" or "failed": it never
\* times out after another number of polling attempts, and after 30
\* attempts without a terminal status it has timed out.
C12_TimedOutIffThirtyAttempts ==
  /\ tOutcome = "timed_out" => TrainingAnswered = 30
  /\ (TrainingAnswered >= 30 /\ tOutcome \notin {"completed", "remote_failed"})
       => tOutcome = "timed_out"

\* C13: when the answer to a status query is a failure of the query itself
\* (a throw at transport level or success false), the run stays in progress and waits for its next query.
C13_FailedQueryKeepsPolling ==
  [][(tpc = "status" /\ tpc' # "status" /\ tSeen' \in {"transport", "unsuccessful"})
       => (trainingInProgress' /\ tpc' = "sleep" /\ tOutcome' = "running")]_vars

\* C14: a run never issues more than 30 status queries: every query, also
\* one that fails, uses up one of the 30 attempts.
C14_AtMostThirtyQueries == TrainingQueries <= 30

\* The timers of the browser fire and the service answers every request of
\* the run; which answer it gives stays open.
SpecTrainingFair ==
  /\ SpecTraining
  /\ WF_vars(TrainingWake)
  /\ WF_vars(\E outcome \in CallOutcomes, m \in ModelIds : TrainingUploadResponse(outcome, m))
  /\ WF_vars(\E outcome \in CallOutcomes : TrainingStartResponse(outcome))
  /\ WF_vars(\E answer \in StatusAnswers : TrainingStatusResponse(answer))

\* C15: when the service keeps answering, every started run ends: it
\* reaches an outcome and trainingInProgress is false again.
C15_RunEnds ==
  trainingInProgress ~> (~trainingInProgress /\ tOutcome # "running")

\* C16: the answer "failed" to a status query ends the run at once: the
\* function returns with error set and trainingInProgress false, issues no
\* further request, and that run has not set modelId.
C16_FailedAbortsAtOnce ==
  /\ [][(tpc = "status" /\ tpc' # "status" /\ tSeen' = "failed")
          => /\ tpc' = "idle"
             /\ ~trainingInProgress'
             /\ error' = "Training failed. Please try again."
             /\ modelId' = modelId
             /\ tSent' = tSent]_vars
  /\ [](tSeen = "failed" => (tpc = "idle" /\ ~trainingInProgress /\ modelId = 0))

\* "failed" is observed after the phase 'training'
C16_Witness ==
  /\ tSeen = "failed"
  /\ tPhase = "training"
  /\ attempts > 0
  /\ error = "Training failed. Please try again."

\* C17: modelId is non-null only when a run has observed "completed", and
\* is then the model id that run's upload returned; a run that failed or
\* timed out leaves it null; handleGenerateVideo called afterwards sends
\* this value as model_id in its generate request.
C17_ModelIdOfCompletedRun ==
  /\ [](modelId = lastCompleted /\ (modelId # 0 <=> tOutcome = "completed"))
  /\ [][/\ (pending = NoLaunch /\ pending' # NoLaunch) => pending'.model_id = modelId
        /\ (pending # NoLaunch /\ pending' # NoLaunch) => pending'.model_id = pending.model_id]_vars

\* the generate request of handleGenerateVideo carries the trained model
C17_Witness ==
  /\ pending # NoLaunch
  /\ pending.stage = "launch"
  /\ pending.model_id = 2
  /\ modelId = 2
  /\ tOutcome = "completed"

\* C18: the progress shown is the checkpoint of the known phase the run
\* observed last: preprocessing 60, feature_extraction 70, training 80,
\* finetuning 90, completed 100.
C18_ProgressIsCheckpointOfPhase ==
  /\ tPhase = "preprocessing" => trainingProgress = 60
  /\ tPhase = "feature_extraction" => trainingProgress = 70
  /\ tPhase = "training" => trainingProgress = 80
  /\ tPhase = "finetuning" => trainingProgress = 90
  /\ tPhase = "completed" => trainingProgress = 100
  /\ (tPhase = "none" /\ tpc \in {"sleep", "status"}) => trainingProgress = 50

\* 'training' was observed and a later query failed: its checkpoint is still shown
C18_Witness ==
  /\ tPhase = "training"
  /\ tSeen = "unsuccessful"
  /\ trainingProgress = 80
  /\ attempts = 3
  /\ tpc = "sleep"

\* C19: from the upload checkpoint on, no step of a run lowers
\* trainingProgress, in whatever order the service reports the phases; and
\* once the run has observed "completed" or "failed", trainingProgress and
\* modelId stay as they are.
C19_ProgressOnlyForward ==
  [][/\ (trainingInProgress /\ tpc # "upload") => trainingProgress' >= trainingProgress
     /\ tOutcome \in {"completed", "remote_failed"}
          => (trainingProgress' = trainingProgress /\ modelId' = modelId)]_vars

\* C20: the run issues its start request only after the service accepted the
\* upload, and a status query only after the service accepted the start
\* request; when the upload or the start request was not accepted the run
\* has ended as failed and has issued no request after it.
C20_StepsInOrder ==
  /\ "start" \in tSent => "upload" \in tAcks
  /\ "status" \in tSent => "start" \in tAcks
  /\ (tSent # {} /\ tpc # "upload" /\ "upload" \notin tAcks)
       => /\ tSent = {"upload"}
          /\ tpc = "idle" /\ ~trainingInProgress
          /\ tOutcome \in {"upload_failed", "rejected"}
  /\ ("upload" \in tAcks /\ tpc # "start" /\ "start" \notin tAcks)
       => /\ tSent = {"upload", "start"}
          /\ tpc = "idle" /\ ~trainingInProgress
          /\ tOutcome \in {"start_failed", "rejected"}

\* the start request was rejected after an accepted upload
C20_Witness ==
  /\ tOutcome = "start_failed"
  /\ tSent = {"upload", "start"}
  /\ tAcks = {"upload"}
  /\ error = "Failed to start training"
  /\ trainingProgress = 30

\* ----------------------------------------------------- launch properties
\* C21: when the photo upload is answered face_detected false, the handler
\* surfaces "No face detected in the image" and sets loading false; it sends
\* no generate request and stores no job id.
C21_NoFaceNoLaunch ==
  /\ [][(~noFace /\ noFace')
          => /\ error' = "No face detected in the image"
             /\ ~loading'
             /\ pending' = NoLaunch
             /\ jobId' = jobId
             /\ nextJob' = nextJob]_vars
  /\ [](noFace => pending = NoLaunch)

\* the upload of a second launch is answered face_detected false while the
\* job of the first is still the active one
C21_Witness ==
  /\ noFace
  /\ jobId = 1
  /\ error = "No face detected in the image"
  /\ ~loading

MissingFieldMessages == {MissingFieldMessage(p) : p \in Paths}

C23_DeclinedCloneKeepsRawVoice ==
  [][(vpc = "upload" /\ vpc' # "upload" /\ vDecision' = "declined")
       => /\ uploadedVoices' = uploadedVoices \cup {[kind |-> "raw", n |-> curVoice]}
          /\ selectedVoice' = [kind |-> "raw", n |-> curVoice]
          /\ cloneRequests' = cloneRequests
          /\ vpc' = "idle"]_vars

\* the second recording is kept raw while the clone of the first is listed
C23_Witness ==
  /\ vDecision = "declined"
  /\ selectedVoice = [kind |-> "raw", n |-> 2]
  /\ uploadedVoices = {[kind |-> "raw", n |-> 2]}
  /\ cloneRequests = {1}
  /\ [kind |-> "cloned", n |-> 1] \in availableVoices

\* C24: when the clone request of an uploaded recording fails (the service
\* registers no voice), the user is told so and the uploaded voice is in
\* the voice lists as the fallback.
C24_CloneFailureKeepsRawVoice ==
  [][(vpc = "clone" /\ vpc' = "idle" /\ registry' = registry)
       => /\ notified' \in {"Failed to clone voice: Unknown error",
                             "Failed to clone voice. Please try again."}
          /\ [kind |-> "raw", n |-> curVoice] \in uploadedVoices' \cup availableVoices']_vars

\* C25: when a clone request succeeds the cloned voice becomes the selected
\* voice, and once the refreshes of the voice list have been answered the
\* list contains every cloned voice.
C25_ClonedVoiceSelectedAndListed ==
  /\ [][registry' # registry
          => (selectedVoice' = [kind |-> "cloned", n |-> curVoice] /\ fetches' # fetches)]_vars
  /\ [](fetches = {} => \A v \in registry : v.kind = "cloned" => v \in availableVoices)

\* C26: right after a successful launch the job status held is not a
\* leftover of an earlier job: if a status is held it is the fresh one of
\* the launched job (initializing, progress 0, no result, no error).
C26_FreshStatusAfterLaunch ==
  [][(pending # NoLaunch /\ pending.stage = "accepted" /\ pending' = NoLaunch)
       => \/ jobStatus' = NoStatus
          \/ /\ jobStatus'.status = "initializing" /\ jobStatus'.progress = 0
             /\ ~jobStatus'.result /\ ~jobStatus'.error]_vars

\* ----------------------------------------------------- render properties
\* C27: formatTime returns "00:00" for undefined, for 0 and for every
\* negative number of seconds.
C27_PlaceholderForNonPositive ==
  (timeText # Unrendered
     /\ (~panel.estimated_time_remaining.defined \/ panel.estimated_time_remaining.value <= 0))
    => timeText = "00:00"

\* C28: a positive remaining time below 60 is rendered in seconds, one of
\* 60 or more in whole minutes rounded up (60 as 1 minute, 125 as 3), so
\* the rendered time is never less than the remaining time.
C28_SecondsBelowSixtyElseMinutes ==
  LET s == panel.estimated_time_remaining.value
  IN (remainingText # Unrendered /\ panel.estimated_time_remaining.defined /\ s > 0)
       => IF s < 60
          THEN remainingText = ToString(s) \o " seconds"
          ELSE \E m \in 1..MaxSeconds :
                 /\ remainingText = ToString(m) \o " minutes"
                 /\ 60 * (m - 1) < s /\ s <= 60 * m

\* C29: for every status label, known or not, the description rendered is
\* a non-empty phrase.
C29_DescriptionNeverEmpty ==
  description # Unrendered => Len(description) > 0

\* C30: every failure of a generation job leaves a message in error and
\* loading false: a failed photo upload or generate request, a status
\* answer "failed", and a status query that fails at transport level.
C30_FailureSetsErrorAndFreesSession ==
  [][/\ (pending # NoLaunch /\ pending.stage \in {"upload", "launch"} /\ pending' = NoLaunch)
          => (error' # NullStr /\ ~loading')
     /\ \A r \in requests :
          (Delivered(r) /\ (~r.resp.ok \/ r.resp.data.status = "failed"))
            => (error' # NullStr /\ ~loading')]_vars

\* the step in which a launch handler resumes with its accepted job id
LaunchResumes == pending # NoLaunch /\ pending.stage = "accepted" /\ pending' = NoLaunch

\* a timer or a query in flight that polls job j
Polled(j) ==
  \/ effInterval = j
  \/ j \in adInterval
  \/ \E t \in chainTimer : t.job = j
  \/ \E r \in requests : r.job = j

\* C31: after a successful launch a polling loop for the new job id is
\* active, whatever the handler and whatever the session held before (a
\* previous job's status "completed" or "failed" included).
C31_LoopActiveAfterLaunch ==
  [][LaunchResumes => (jobId' # 0 /\ Polled(jobId)')]_vars

\* C32: the first status query of a launched job is issued at once, in the
\* step in which the handler stores the job id, before any interval tick, in
\* every launch path.
C32_FirstQueryAtLaunch ==
  [][LaunchResumes => queries'[jobId'] > 0]_vars

\* C33: when the 5-minute ceiling of handleAdGeneration fires while the ad job
\* is the active job and its observed status is not terminal, no timer keeps
\* polling that job, loading is false and the "taking longer than expected"
\* message is the error.
C33_CeilingStopsPolling ==
  [][\A c \in adCeiling :
       (c \notin adCeiling' /\ jobId = c.job /\ ~Terminal(jobStatus.status))
         => /\ effInterval' # c.job
            /\ c.job \notin adInterval'
            /\ ~loading'
            /\ error' = "Ad generation is taking longer than expected. Please check back later."]_vars

\* C34: when the user accepts the clone but gives no display name, no
\* clone-voice request is sent, cloneVoice is over and loading is false.
C34_NoNameNoCloneRequest ==
  [][(vpc = "upload" /\ vpc' # "upload" /\ vDecision' = "cancelled")
       => (cloneRequests' = cloneRequests /\ vpc' = "idle" /\ ~loading')]_vars

C34_Witness ==
  /\ vDecision = "cancelled"
  /\ vpc = "idle"
  /\ curVoice \notin cloneRequests
  /\ ~loading

\* C35: while the active generation job is not terminal and its poller
\* interval is live, loading is true, whatever else runs in the session (the
\* voice upload and clone flow in particular).
C35_LoadingWhileJobPolled ==
  (jobId # 0 /\ ~Terminal(jobStatus.status) /\ effInterval = jobId) => loading

\* C36: the poller effect has at most one live interval timer; a re-run of
\* the effect that creates a timer leaves it the only one (the previous one
\* was cleared first); and none is live while jobId is null or the status
\* is "completed" or "failed".
C36_OneEffectTimer ==
  /\ [](/\ Cardinality(effTimers) <= 1
        /\ (jobId = 0 \/ Terminal(jobStatus.status)) => effTimers = {})
  /\ [][\A t \in effTimers' \ effTimers : effTimers' = {t}]_vars

C36_Witness ==
  /\ jobId # 0
  /\ jobStatus.status = "generating_video"
  /\ Cardinality(effTimers) = 1

\* C37: whenever a voice handler selects a voice by itself (after a file
\* upload, a declined clone or a successful clone), that voice is listed in
\* uploadedVoices or availableVoices.
C37_AutoSelectedVoiceListed ==
  [][(vpc' # vpc /\ selectedVoice' # selectedVoice)
       => selectedVoice' \in uploadedVoices' \cup availableVoices']_vars

\* C38: at most one recording timer is live; none is live while recording
\* is stopped; and recordingTime does not change while recording stays
\* stopped, for every sequence of startRecording and stopRecording calls.
C38_OneRecordingTimer ==
  /\ [](/\ Cardinality(recTimers) <= 1
        /\ ~isRecording => recTimers = {})
  /\ [][(~isRecording /\ ~isRecording') => recordingTime' = recordingTime]_vars
====
